---- MODULE Spec2Model ----
(***************************************************************************)
(* gomux: a wrapper around gorilla/mux.  The model covers gomux.go: the    *)
(* option functions and New, the Route constructors and AddRoutes, Serve,  *)
(* and the dispatch adapter responseHandler with writeContent.             *)
(*                                                                         *)
(* The collaborators gomux.go only calls (the router, net/http's           *)
(* ResponseWriter, encoding/json, the errors package, freeport, the        *)
(* operating system's port table) are modelled by what the calls in        *)
(* gomux.go rely on; the outcomes gomux.go cannot decide (does the router  *)
(* accept the route, does the connection take the bytes, which free port   *)
(* does the kernel hand out) are inputs of the actions.                    *)
(*                                                                         *)
(* A business handler is modelled by the (data, error) pair it returns; a  *)
(* handler that itself writes to the io.Writer it is handed is outside the *)
(* model.                                                                  *)
(***************************************************************************)
EXTENDS Integers, Sequences, FiniteSets, TLC

VARIABLES
    srv,    \* id -> the Server struct (name, ctx, mux, tls, port, tlsconfig, cors)
    pc,     \* id -> where the program is with that server
    bound,  \* the ports of the host that some listener holds
    log,    \* what log.Printf has written, oldest first
    w,      \* the http.ResponseWriter of the latest request
    call    \* the latest operation: its arguments and what it returned

vars == <<srv, pc, bound, log, w, call>>

----------------------------------------------------------------------------
(* Bounds of the model.                                                    *)

MaxOpts == 3        \* options passed to New
MaxRoutes == 2      \* routes held by the router of the route-table spec
MaxLog == 1         \* log entries written by request dispatch
NumPorts == 2       \* ports of the host

(* Program constants.                                                      *)

StatusOK == 200
StatusInternalServerError == 500
StatusUnprocessableEntity == 422
CodeBadRequest == 400
CodeServerError == 500

Ports == 1..NumPorts

----------------------------------------------------------------------------
(* Go values.  One record shape stands for every interface{} and error     *)
(* value the adapter handles; t is the dynamic type.                       *)

Val(t, id, name, code, op, kind, err, stack) ==
    [t |-> t, id |-> id, name |-> name, code |-> code, op |-> op,
     kind |-> kind, err |-> err, stack |-> stack]

Nil == Val("nil", 0, "", 0, "", "", "", <<>>)

\* &User{ID: id, Name: name} of the README
User(id, name) == Val("User", id, name, 0, "", "", "", <<>>)

\* a value encoding/json cannot encode (a channel, a func)
ChanVal == Val("chan", 0, "", 0, "", "", "", <<>>)

\* an error that is not an *errors.Error, such as errors.New(text)
Opaque(text) == Val("opaque", 0, "", 0, "", "", text, <<>>)

\* errors.E(code, kind, cause): the *errors.Error the README prints
E(code, kind, cause, site) == Val("Error", 0, "", code, "", kind, cause, <<site>>)

\* error.Error() of an error value
ErrorText(e) == e.err

----------------------------------------------------------------------------
(* encoding/json as writeContent uses it: the text of a value, as tokens.  *)

Itoa(n) == ToString(n)

Quote(s) == "\"" \o s \o "\""

KindJSON(kind) == IF kind = "Invalid" THEN "1" ELSE "0"

RECURSIVE StackJSON(_)
StackJSON(st) ==
    IF st = <<>> THEN <<>>
    ELSE IF Len(st) = 1 THEN <<Quote(st[1])>>
    ELSE <<Quote(st[1]), ",">> \o StackJSON(Tail(st))

\* json.NewEncoder(&buf).Encode(data): ok and the bytes (with Encode's
\* trailing newline), or not ok
Encode(v) ==
    CASE v.t = "nil"  -> [ok |-> TRUE, bytes |-> <<"null", "\n">>]
      [] v.t = "User" ->
            [ok |-> TRUE,
             bytes |-> <<"{", "\"id\":", Itoa(v.id), ",",
                         "\"name\":", Quote(v.name), "}", "\n">>]
      [] v.t = "Error" ->
            [ok |-> TRUE,
             bytes |-> <<"{", "\"code\":", Itoa(v.code), ",",
                         "\"op\":", Quote(v.op), ",",
                         "\"kind\":", KindJSON(v.kind), ",",
                         "\"err\":", Quote(v.err), ",",
                         "\"stack\":", "[">> \o StackJSON(v.stack)
                         \o <<"]", "}", "\n">>]
      [] v.t = "opaque" -> [ok |-> TRUE, bytes |-> <<"{", "}", "\n">>]
      [] OTHER -> [ok |-> FALSE, bytes |-> <<>>]

----------------------------------------------------------------------------
(* http.ResponseWriter as the adapter drives it.  The first WriteHeader    *)
(* fixes the status line; a later one is recorded and changes nothing.     *)

NewWriter ==
    [contentType |-> "", status |-> 0, headerCalls |-> <<>>,
     writeCalls |-> <<>>, body |-> <<>>]

SetContentType(rw, ct) == [rw EXCEPT !.contentType = ct]

\* w.WriteHeader(code)
WriteHeader(rw, code) ==
    [rw EXCEPT !.headerCalls = Append(@, code),
               !.status = IF @ = 0 THEN code ELSE @]

\* w.Write(bytes); ioOK is whether the connection takes them.  A Write
\* before any WriteHeader sends 200 first.
Write(rw, bytes, ioOK) ==
    [rw EXCEPT !.writeCalls = Append(@, bytes),
               !.status = IF @ = 0 THEN StatusOK ELSE @,
               !.body = IF ioOK THEN @ \o bytes ELSE @]

----------------------------------------------------------------------------
(* The dispatch adapter.                                                   *)

\* writeContent(w, r, data): the writer afterwards and the error returned
writeContent(rw, data, ioOK) ==
    LET enc == Encode(data) IN
    IF ~enc.ok
    THEN [w |-> WriteHeader(rw, StatusInternalServerError),
          err |-> E(CodeServerError, "Encoding", "json: unsupported type",
                    "gomux.go:259")]
    ELSE LET rw2 == Write(rw, enc.bytes, ioOK) IN
         IF ~ioOK
         THEN [w |-> WriteHeader(rw2, StatusInternalServerError),
               err |-> E(CodeServerError, "IO", "write: broken pipe",
                         "gomux.go:264")]
         ELSE [w |-> rw2, err |-> Nil]

\* FillCode without the substitution of 500 for a zero Code
FillCodeKeepZero(err) == err

\* the error branch of responseHandler for an *errors.Error: a zero Code
\* is set to 500 in the error itself
FillCode(err) ==
    IF err.code = 0 THEN [err EXCEPT !.code = StatusInternalServerError]
    ELSE err

\* WrapOpaque losing the cause: errors.E(CodeServerError, Invalid)
WrapOpaqueNoCause(err) ==
    E(CodeServerError, "Invalid", "", "gomux.go:242")

\* the default branch: the opaque error wrapped into a new *errors.Error
WrapOpaque(err) ==
    E(CodeServerError, "Invalid", ErrorText(err), "gomux.go:242")

\* Classify answering a nil result with 204 No Content
ClassifyNoContent(data, err) ==
    IF err.t # "nil"
    THEN IF err.t = "Error"
         THEN [status |-> FillCode(err).code, data |-> FillCode(err)]
         ELSE [status |-> CodeServerError, data |-> WrapOpaque(err)]
    ELSE [status |-> IF data.t = "nil" THEN 204 ELSE StatusOK, data |-> data]

\* the switch of responseHandler on what fn returned: the status written
\* and the value handed to writeContent
Classify(data, err) ==
    IF err.t # "nil"
    THEN IF err.t = "Error"
         THEN [status |-> FillCode(err).code, data |-> FillCode(err)]
         ELSE [status |-> CodeServerError, data |-> WrapOpaque(err)]
    ELSE [status |-> StatusOK, data |-> data]

\* the handler responseHandler(fn) returns, run on a fresh writer rw with
\* fn returning (data, err): the writer afterwards and the lines logged
responseHandler(rw, data, err, ioOK) ==
    LET rw1 == SetContentType(rw, "application/json")
        c   == Classify(data, err)
        rw2 == WriteHeader(rw1, c.status)
        wc  == writeContent(rw2, c.data, ioOK)
    IN  [w |-> wc.w,
         log |-> IF wc.err.t # "nil"
                 THEN <<E(StatusUnprocessableEntity, "Invalid",
                          ErrorText(wc.err), "gomux.go:249")>>
                 ELSE <<>>]

\* the README's raw handler Example
ExampleHandler(rw) ==
    Write(WriteHeader(rw, 202), <<"Successful Call!">>, TRUE)

----------------------------------------------------------------------------
(* Server configuration: the options and New.                              *)

\* the tls.Config literal of New
DefaultTLSConfig ==
    [MinVersion |-> "VersionTLS12",
     CurvePreferences |-> <<"CurveP521", "CurveP384", "CurveP256">>,
     PreferServerCipherSuites |-> TRUE,
     CipherSuites |-> <<"TLS_ECDHE_RSA_WITH_AES_256_GCM_SHA384",
                        "TLS_ECDHE_RSA_WITH_AES_256_CBC_SHA",
                        "TLS_RSA_WITH_AES_256_GCM_SHA384",
                        "TLS_RSA_WITH_AES_256_CBC_SHA">>]

\* a tls.Config a caller may pass to TLSConfig
CustomTLSConfig ==
    [MinVersion |-> "VersionTLS13",
     CurvePreferences |-> <<"X25519">>,
     PreferServerCipherSuites |-> FALSE,
     CipherSuites |-> <<"TLS_AES_256_GCM_SHA384">>]

\* the cors.Options literal of New
DefaultCors ==
    [AllowedOrigins |-> <<"*">>,
     AllowCredentials |-> TRUE,
     AllowedMethods |-> <<"GET", "POST", "OPTIONS", "PUT", "DELETE">>,
     AllowedHeaders |-> <<"Origin", "Content-Type", "Accept", "Authorization">>]

\* a *cors.Cors a caller may pass to CustomCors
CustomCorsPolicy ==
    [AllowedOrigins |-> <<"https://example.com">>,
     AllowCredentials |-> FALSE,
     AllowedMethods |-> <<"GET">>,
     AllowedHeaders |-> <<"Accept">>]

\* an Option value: which option function made it, and its argument
Opt(o, conf, cors, p) == [o |-> o, conf |-> conf, cors |-> cors, p |-> p]

TLS == Opt("TLS", DefaultTLSConfig, DefaultCors, 0)

TLSConfig(conf) == Opt("TLSConfig", conf, DefaultCors, 0)

CustomCors(cors) == Opt("CustomCors", DefaultTLSConfig, cors, 0)

Port(p) == Opt("Port", DefaultTLSConfig, DefaultCors, p)

\* ApplyOption with a TLSConfig that sets the policy and leaves tls alone
ApplyOptionPolicyOnly(s, opt) ==
    CASE opt.o = "TLS"        -> [s EXCEPT !.tls = TRUE]
      [] opt.o = "TLSConfig"  -> [s EXCEPT !.tlsconfig = opt.conf]
      [] opt.o = "CustomCors" -> [s EXCEPT !.cors = opt.cors]
      [] opt.o = "Port"       -> [s EXCEPT !.port = opt.p]

\* opt(s): the closure each option function returns, applied to s
ApplyOption(s, opt) ==
    CASE opt.o = "TLS"        -> [s EXCEPT !.tls = TRUE]
      [] opt.o = "TLSConfig"  -> [s EXCEPT !.tlsconfig = opt.conf, !.tls = TRUE]
      [] opt.o = "CustomCors" -> [s EXCEPT !.cors = opt.cors]
      [] opt.o = "Port"       -> [s EXCEPT !.port = opt.p]

\* the zero Server: what srv holds before New has run
ZeroServer ==
    [name |-> "", ctx |-> "", mux |-> [prefix |-> "", strictSlash |-> FALSE, routes |-> <<>>],
     tls |-> FALSE, port |-> 0, tlsconfig |-> DefaultTLSConfig, cors |-> DefaultCors]

\* the struct literal New starts from
ServerLiteral(ctx, name) ==
    [name |-> name, ctx |-> ctx,
     mux |-> [prefix |-> "/" \o name, strictSlash |-> TRUE, routes |-> <<>>],
     tls |-> FALSE, port |-> 0,
     tlsconfig |-> DefaultTLSConfig, cors |-> DefaultCors]

\* for _, opt := range opts { opt(s) }
RECURSIVE ApplyOptions(_, _)
ApplyOptions(s, opts) ==
    IF opts = <<>> THEN s
    ELSE ApplyOptions(ApplyOption(s, Head(opts)), Tail(opts))

\* New(ctx, name, opts...)
NewServer(ctx, name, opts) == ApplyOptions(ServerLiteral(ctx, name), opts)

----------------------------------------------------------------------------
(* Routes and AddRoutes.  A path is a sequence of characters; a handler is *)
(* named, "" being a nil func.                                             *)

Route(method, path, handler, handlerFunc) ==
    [Method |-> method, Path |-> path, Handler |-> handler, HandlerFunc |-> handlerFunc]

NewRoute(method, path, handler) == Route(method, path, handler, "")

NewRouteFn(method, path, handler) == Route(method, path, "", handler)

Get(path, handler) == Route("GET", path, handler, "")

GetFn(path, handler) == Route("GET", path, "", handler)

Post(path, handler) == Route("POST", path, handler, "")

PostFn(path, handler) == Route("POST", path, "", handler)

Delete(path, handler) == Route("DELETE", path, handler, "")

DeleteFn(path, handler) == Route("DELETE", path, "", handler)

Put(path, handler) == Route("PUT", path, handler, "")

PutFn(path, handler) == Route("PUT", path, "", handler)

\* strings.TrimPrefix(s, prefix)
TrimPrefix(s, prefix) ==
    IF Len(s) >= Len(prefix) /\ SubSeq(s, 1, Len(prefix)) = prefix
    THEN SubSeq(s, Len(prefix) + 1, Len(s))
    ELSE s

\* route.Path = "/" + strings.TrimPrefix(route.Path, "/")
NormalizePath(path) == <<"/">> \o TrimPrefix(path, <<"/">>)

\* an http.HandlerFunc value: the adapter around a ServiceHandler, or the
\* caller's own func (fn = "" is the nil func)
HandlerFuncVal(adapter, fn) == [adapter |-> adapter, fn |-> fn]

\* the HandlerFunc AddRoutes hands to the router for a route
RouteHandlerFunc(route) ==
    IF route.Handler # ""
    THEN HandlerFuncVal(TRUE, route.Handler)
    ELSE HandlerFuncVal(FALSE, route.HandlerFunc)

\* s.mux.Methods(m).Path(p).HandlerFunc(h): the router gets a new route; if
\* building it failed the route keeps the error and no handler
Register(router, method, path, h, fail) ==
    [router EXCEPT !.routes =
        Append(@, [method |-> method, path |-> path,
                   handler |-> IF fail THEN HandlerFuncVal(FALSE, "") ELSE h,
                   err |-> fail])]

\* the body of AddRoutes' loop for one route: the server and the log after
AddRoute(st, route, fail) ==
    LET path == NormalizePath(route.Path)
        h    == RouteHandlerFunc(route)
    IN  [s   |-> [st.s EXCEPT !.mux = Register(@, route.Method, path, h, fail)],
         log |-> IF fail
                 THEN Append(st.log, E(StatusUnprocessableEntity, "Invalid",
                                       "mux: route error", "gomux.go:196"))
                 ELSE st.log]

\* AddRoutes returning at the first route the router refuses
RECURSIVE AddRoutesAbort(_, _, _)
AddRoutesAbort(st, routes, fails) ==
    IF routes = <<>> THEN st
    ELSE IF Head(fails) THEN AddRoute(st, Head(routes), TRUE)
    ELSE AddRoutesAbort(AddRoute(st, Head(routes), FALSE),
                        Tail(routes), Tail(fails))

\* AddRoutes(routes...): fails[k] is whether the router reports an error
\* for routes[k]
RECURSIVE AddRoutesLoop(_, _, _)
AddRoutesLoop(st, routes, fails) ==
    IF routes = <<>> THEN st
    ELSE AddRoutesLoop(AddRoute(st, Head(routes), Head(fails)),
                       Tail(routes), Tail(fails))

----------------------------------------------------------------------------
(* Serve.                                                                  *)

\* what freeport.GetFreePort can return on a host whose listeners hold the
\* ports in held: a port nobody holds (the probe listener is closed again
\* before it returns), or 0 with an error when there is none
GetFreePort(held) == IF Ports \ held = {} THEN {0} ELSE Ports \ held

\* AcquirePort asking for a free port whatever port is configured
AcquirePortAlways(s, free) ==
    IF free = 0
    THEN [s |-> s, err |-> E(CodeServerError, "HTTP", "no free port", "gomux.go:207")]
    ELSE [s |-> [s EXCEPT !.port = free], err |-> Nil]

\* the first block of Serve: the server after it and the error returned;
\* free is what GetFreePort returned
AcquirePort(s, free) ==
    IF s.port = 0
    THEN IF free = 0
         THEN [s |-> s, err |-> E(CodeServerError, "HTTP", "no free port", "gomux.go:207")]
         ELSE [s |-> [s EXCEPT !.port = free], err |-> Nil]
    ELSE [s |-> s, err |-> Nil]

\* the http.Server literal of Serve
HTTPServer(s) ==
    [Addr |-> ":" \o Itoa(s.port), Handler |-> <<s.cors, s.mux>>,
     TLSConfig |-> s.tlsconfig, TLSNextProto |-> <<>>]

\* ListenAndServe / ListenAndServeTLS("server.crt", "server.key"): whether
\* the listener comes up and stays; certOK is whether the two files load
ListenResult(s, held, certOK) ==
    IF s.port \in held THEN "bind: address already in use"
    ELSE IF s.tls /\ ~certOK THEN "open server.crt: no such file"
    ELSE "listening"

----------------------------------------------------------------------------
(* Inputs.                                                                 *)

SeqsUpTo(S, n) == UNION {[1..k -> S] : k \in 0..n}

Options ==
    {TLS, TLSConfig(CustomTLSConfig), CustomCors(CustomCorsPolicy)}
    \cup {Port(p) : p \in 0..NumPorts}

OptSeqs == SeqsUpTo(Options, MaxOpts)

\* the routes of the README's main, and its raw route
ReadmeRoutes ==
    <<Get(<<"/", "u", "s", "e", "r", "s">>, "Users"),
      Post(<<"/", "u", "s", "e", "r">>, "SaveUser"),
      Delete(<<"/", "u", "s", "e", "r", "/", "{", "i", "d", "}">>, "DeleteUser"),
      GetFn(<<"/", "e", "x", "a", "m", "p", "l", "e">>, "Example")>>

PathInputs ==
    {<<"u", "s", "e", "r", "s">>,
     <<"/", "u", "s", "e", "r", "s">>,
     <<"/", "/", "u", "s", "e", "r", "s">>}

\* Route is an exported struct: a caller can fill either func, both or none
RouteInputs ==
    {Route(m, p, h, f) : m \in {"GET", "POST"}, p \in PathInputs,
                         h \in {"", "Users"}, f \in {"", "Example"}}

\* what a business handler can return
Datas == {Nil, User(1, "Hunter"), ChanVal}

Texts == {"Invalid User ID", "sql: no rows in result set"}

Errs ==
    {Nil}
    \cup {E(c, k, "Invalid User ID", "main.go:37") :
            c \in {0, CodeBadRequest, StatusUnprocessableEntity},
            k \in {"Invalid", "Other"}}
    \cup {Opaque(m) : m \in Texts}

----------------------------------------------------------------------------
(* Actions.                                                                *)

\* s := New(ctx, name, opts...)
New(i, ctx, name, optSeqs) ==
    /\ pc[i] = "start"
    /\ \E opts \in optSeqs :
        /\ srv' = [srv EXCEPT ![i] = NewServer(ctx, name, opts)]
        /\ call' = [op |-> "New", id |-> i, opts |-> opts]
    /\ pc' = [pc EXCEPT ![i] = "built"]
    /\ UNCHANGED <<bound, log, w>>

\* s.AddRoutes(routes...), before Serve
AddRoutes(i, routeSeqs, failVals) ==
    /\ pc[i] = "built"
    /\ \E routes \in routeSeqs :
         \E fails \in [1..Len(routes) -> failVals] :
            LET r == AddRoutesLoop([s |-> srv[i], log |-> log], routes, fails)
            IN  /\ srv' = [srv EXCEPT ![i] = r.s]
                /\ log' = r.log
                /\ call' = [op |-> "AddRoutes", id |-> i, routes |-> routes,
                            fails |-> fails, ret |-> i]
    /\ UNCHANGED <<pc, bound, w>>

\* s.Serve(), up to the port it will listen on
ServeAcquire(i) ==
    /\ pc[i] = "built"
    /\ \E free \in GetFreePort(bound) :
        LET r == AcquirePort(srv[i], free)
        IN  /\ srv' = [srv EXCEPT ![i] = r.s]
            /\ pc' = [pc EXCEPT ![i] = IF r.err.t # "nil" THEN "failed" ELSE "bind"]
            /\ call' = [op |-> "Serve", step |-> "acquire", id |-> i,
                        port0 |-> srv[i].port, free |-> free, ret |-> r.err.err]
    /\ UNCHANGED <<bound, log, w>>

\* s.Serve(), from the http.Server literal to the listener
ServeListen(i) ==
    /\ pc[i] = "bind"
    /\ \E certOK \in BOOLEAN :
        LET res == ListenResult(srv[i], bound, certOK)
        IN  /\ bound' = IF res = "listening" THEN bound \cup {srv[i].port} ELSE bound
            /\ pc' = [pc EXCEPT ![i] = IF res = "listening" THEN "serving" ELSE "failed"]
            /\ call' = [op |-> "Serve", step |-> "listen", id |-> i,
                        port0 |-> srv[i].port, server |-> HTTPServer(srv[i]),
                        ret |-> res]
    /\ UNCHANGED <<srv, log, w>>

\* a request the router matches to a route registered with an adapted
\* handler: the handler returns (data, err)
Dispatch(i) ==
    /\ pc[i] = "serving"
    /\ Len(log) < MaxLog
    /\ \E k \in 1..Len(srv[i].mux.routes) :
        /\ ~srv[i].mux.routes[k].err
        /\ srv[i].mux.routes[k].handler.adapter
    /\ \E data \in Datas, err \in Errs, ioOK \in BOOLEAN :
        LET r == responseHandler(NewWriter, data, err, ioOK)
        IN  /\ w' = r.w
            /\ log' = log \o r.log
            /\ call' = [op |-> "Dispatch", id |-> i, data |-> data,
                        err |-> err, ioOK |-> ioOK]
    /\ UNCHANGED <<srv, pc, bound>>

\* a request the router matches to a route registered with a raw handler
DispatchRaw(i) ==
    /\ pc[i] = "serving"
    /\ \E k \in 1..Len(srv[i].mux.routes) :
        /\ ~srv[i].mux.routes[k].err
        /\ ~srv[i].mux.routes[k].handler.adapter
        /\ srv[i].mux.routes[k].handler.fn # ""
    /\ w' = ExampleHandler(NewWriter)
    /\ call' = [op |-> "DispatchRaw", id |-> i]
    /\ UNCHANGED <<srv, pc, bound, log>>

----------------------------------------------------------------------------
(* The README's program: one server, built, given its routes, served.      *)

Init ==
    /\ srv = [i \in {1} |-> ZeroServer]
    /\ pc = [i \in {1} |-> "start"]
    /\ bound \in SUBSET Ports
    /\ log = <<>>
    /\ w = NewWriter
    /\ call = [op |-> "none", id |-> 0]

Next ==
    \/ \E i \in DOMAIN srv : New(i, "ctx", "api", OptSeqs)
    \/ \E i \in DOMAIN srv :
            AddRoutes(i, IF srv[i].mux.routes = <<>> THEN {ReadmeRoutes} ELSE {}, {FALSE})
    \/ \E i \in DOMAIN srv : ServeAcquire(i)
    \/ \E i \in DOMAIN srv : ServeListen(i)
    \/ \E i \in DOMAIN srv : Dispatch(i)
    \/ \E i \in DOMAIN srv : DispatchRaw(i)

Spec == Init /\ [][Next]_vars

(* The route table: a server built with no options takes any routes, the   *)
(* router accepting or refusing each.                                      *)

InitRoutes ==
    /\ srv = [i \in {1} |-> NewServer("ctx", "api", <<>>)]
    /\ pc = [i \in {1} |-> "built"]
    /\ bound = {}
    /\ log = <<>>
    /\ w = NewWriter
    /\ call = [op |-> "New", id |-> 1, opts |-> <<>>]

NextRoutes ==
    \E i \in DOMAIN srv :
        AddRoutes(i, SeqsUpTo(RouteInputs, MaxRoutes - Len(srv[i].mux.routes)), BOOLEAN)

SpecRoutes == InitRoutes /\ [][NextRoutes]_vars

(* Two servers built without a port option, each calling Serve in its own  *)
(* goroutine.                                                              *)

InitConcurrent ==
    /\ \E o1 \in {<<>>, <<TLS>>}, o2 \in {<<>>, <<TLS>>} :
        srv = (1 :> NewServer("ctx", "a", o1)) @@ (2 :> NewServer("ctx", "b", o2))
    /\ pc = [i \in {1, 2} |-> "built"]
    /\ bound \in SUBSET Ports
    /\ log = <<>>
    /\ w = NewWriter
    /\ call = [op |-> "New", id |-> 2, opts |-> <<>>]

NextConcurrent ==
    \/ \E i \in DOMAIN srv : ServeAcquire(i)
    \/ \E i \in DOMAIN srv : ServeListen(i)

SpecConcurrent == InitConcurrent /\ [][NextConcurrent]_vars

----------------------------------------------------------------------------
(* Properties.                                                             *)

\* the latest operation was a request through the dispatch adapter
Dispatched == call.op = "Dispatch"

\* the bytes the adapter handed to w.Write, all calls together
Written == IF w.writeCalls = <<>> THEN <<>> ELSE w.writeCalls[1]

C2_StructuredError ==
    (Dispatched /\ call.err.t = "Error") =>
        LET c == IF call.err.code = 0 THEN 500 ELSE call.err.code
        IN  /\ w.status = c
            /\ w.headerCalls[1] = c
            /\ w.writeCalls =
                 <<<<"{", "\"code\":", ToString(c), ",", "\"op\":", "\"\"", ",",
                     "\"kind\":", IF call.err.kind = "Invalid" THEN "1" ELSE "0", ",",
                     "\"err\":", "\"" \o call.err.err \o "\"", ",",
                     "\"stack\":", "[", "\"" \o call.err.stack[1] \o "\"", "]",
                     "}", "\n">>>>

C2_Witness ==
    /\ Dispatched
    /\ call.err = E(0, "Invalid", "Invalid User ID", "main.go:37")
    /\ w.status = 500
    /\ w.body # <<>>
    /\ w.body[3] = "500"

(* C3: whenever the business handler returns an error that is not an       *)
(* *errors.Error, the status is 500 and the body is a new structured error *)
(* of kind Invalid whose message is the original error's text.             *)
C3_OpaqueError ==
    (Dispatched /\ call.err.t = "opaque") =>
        /\ w.status = 500
        /\ w.headerCalls[1] = 500
        /\ Len(w.writeCalls) = 1
        /\ SubSeq(w.writeCalls[1], 1, 12) =
             <<"{", "\"code\":", "500", ",", "\"op\":", "\"\"", ",",
               "\"kind\":", "1", ",", "\"err\":", "\"" \o call.err.err \o "\"">>

C3_Witness ==
    /\ Dispatched
    /\ call.err = Opaque("sql: no rows in result set")
    /\ call.ioOK
    /\ w.status = 500
    /\ w.body[9] = "1"
    /\ w.body[12] = "\"sql: no rows in result set\""

(* C4, as claimed: for every request through the adapter WriteHeader is    *)
(* called exactly once and Write at most once; after a failed encoding     *)
(* nothing more is written, and no WriteHeader follows a failed Write.     *)
C4_SingleStatusWrite ==
    Dispatched =>
        /\ Len(w.headerCalls) = 1
        /\ Len(w.writeCalls) <= 1
        /\ ~Encode(Classify(call.data, call.err).data).ok => w.writeCalls = <<>>

(* C5, as claimed: every path AddRoutes registers has exactly one leading  *)
(* slash, so "users", "/users" and "//users" are all registered as         *)
(* "/users".                                                               *)
C5_OneLeadingSlash ==
    \A i \in DOMAIN srv :
        \A k \in 1..Len(srv[i].mux.routes) :
            LET path == srv[i].mux.routes[k].path
            IN  /\ path[1] = "/"
                /\ Len(path) >= 2 => path[2] # "/"
                /\ path = <<"/", "u", "s", "e", "r", "s">>

\* fields of the Server other than port
Frozen(s) == <<s.name, s.ctx, s.mux, s.tls, s.tlsconfig, s.cors>>

\* the step is one of Serve or of request dispatch
ServingStep == call'.op \in {"Serve", "Dispatch", "DispatchRaw"}

(* C6, as claimed: Serve and request dispatch change no field of the       *)
(* Server.                                                                 *)
C6_Original == [][ServingStep => srv' = srv]_vars

(* C6, amended: Serve and request dispatch change no field of the Server   *)
(* but port, and port only in Serve's port acquisition, from 0 to the free *)
(* port acquired.                                                          *)
C6_ReadOnlyButPort ==
    [][ServingStep =>
        \A i \in DOMAIN srv :
            /\ Frozen(srv'[i]) = Frozen(srv[i])
            /\ srv'[i].port # srv[i].port =>
                 /\ call'.op = "Serve" /\ call'.step = "acquire" /\ call'.id = i
                 /\ srv[i].port = 0
                 /\ srv'[i].port = call'.free
                 /\ call'.free \in Ports]_vars

C6_Witness ==
    /\ call.op = "Serve"
    /\ call.step = "acquire"
    /\ call.port0 = 0
    /\ call.free \in Ports
    /\ srv[call.id].port = call.free
    /\ srv[call.id].mux.routes # <<>>

(* C7, as claimed: two servers built without a port option and calling     *)
(* Serve concurrently never hold the same port, and neither fails to bind  *)
(* because the address is already in use.                                  *)
C7_DistinctPorts ==
    /\ \A i \in DOMAIN srv : \A j \in DOMAIN srv :
          (i # j /\ pc[i] \in {"bind", "serving"} /\ pc[j] \in {"bind", "serving"})
              => srv[i].port # srv[j].port
    /\ (call.op = "Serve" /\ call.step = "listen")
          => call.ret # "bind: address already in use"

\* the index of the last option of opts made by one of the option
\* functions in os, 0 if there is none
LastBy(opts, os) ==
    LET ks == {k \in 1..Len(opts) : opts[k].o \in os}
    IN  IF ks = {} THEN 0 ELSE CHOOSE k \in ks : \A m \in ks : m <= k

(* C8: after New each field holds what the last option touching it set, or *)
(* its default when none does: TLS is on iff TLS or TLSConfig is among the *)
(* options, the TLS policy is the last TLSConfig's or the default, the     *)
(* CORS policy the last CustomCors's or the default, the port the last     *)
(* Port's or 0.                                                            *)
C8_LastOptionWins ==
    call.op = "New" =>
        LET s    == srv[call.id]
            opts == call.opts
            kt   == LastBy(opts, {"TLSConfig"})
            kc   == LastBy(opts, {"CustomCors"})
            kp   == LastBy(opts, {"Port"})
        IN  /\ s.tls = (LastBy(opts, {"TLS", "TLSConfig"}) # 0)
            /\ s.tlsconfig = IF kt = 0 THEN DefaultTLSConfig ELSE opts[kt].conf
            /\ s.cors = IF kc = 0 THEN DefaultCors ELSE opts[kc].cors
            /\ s.port = IF kp = 0 THEN 0 ELSE opts[kp].p
            /\ s.name = "api"
            /\ s.mux.routes = <<>>

C8_Witness ==
    /\ call.op = "New"
    /\ call.opts = <<TLS, TLSConfig(CustomTLSConfig), Port(1)>>
    /\ srv[1].tls
    /\ srv[1].tlsconfig = CustomTLSConfig
    /\ srv[1].port = 1

\* how many of the flags of fails are set
RECURSIVE CountTrue(_)
CountTrue(fails) ==
    IF fails = <<>> THEN 0
    ELSE (IF Head(fails) THEN 1 ELSE 0) + CountTrue(Tail(fails))

(* C9: AddRoutes attempts every route of its arguments in order, whatever  *)
(* the router answers for the others: the router gets one route per        *)
(* argument after those it had, the ones it had stay as they were, a route *)
(* the router accepts is registered with its handler, each refusal is      *)
(* logged once with code 422, and AddRoutes returns the same Server.       *)
C9_BestEffort ==
    [][call'.op = "AddRoutes" =>
        LET i   == call'.id
            old == srv[i].mux.routes
            new == srv'[i].mux.routes
            n   == Len(call'.routes)
        IN  /\ Len(new) = Len(old) + n
            /\ SubSeq(new, 1, Len(old)) = old
            /\ \A k \in 1..n :
                 /\ new[Len(old) + k].method = call'.routes[k].Method
                 /\ new[Len(old) + k].err = call'.fails[k]
                 /\ ~call'.fails[k] =>
                      new[Len(old) + k].handler.fn \in
                          {call'.routes[k].Handler, call'.routes[k].HandlerFunc}
            /\ Len(log') = Len(log) + CountTrue(call'.fails)
            /\ SubSeq(log', 1, Len(log)) = log
            /\ \A k \in Len(log) + 1..Len(log') :
                 log'[k].code = 422 /\ log'[k].kind = "Invalid"
            /\ call'.ret = i
            /\ pc' = pc]_vars

C9_Witness ==
    /\ call.op = "AddRoutes"
    /\ Len(call.routes) = 2
    /\ call.fails = <<TRUE, FALSE>>
    /\ Len(srv[1].mux.routes) = 2
    /\ srv[1].mux.routes[1].err
    /\ ~srv[1].mux.routes[2].err
    /\ srv[1].mux.routes[2].handler.fn # ""
    /\ Len(log) = 1

(* C10, as claimed: every route AddRoutes registers has exactly one of     *)
(* Handler and HandlerFunc set, and the router gets the adapter around     *)
(* Handler if that is the one, HandlerFunc itself otherwise.               *)
C10_ExactlyOneVariant ==
    call.op = "AddRoutes" =>
        \A k \in 1..Len(call.routes) :
            LET r == call.routes[k]
                e == srv[call.id].mux.routes[Len(srv[call.id].mux.routes) - Len(call.routes) + k]
            IN  /\ (r.Handler # "") # (r.HandlerFunc # "")
                /\ ~e.err => e.handler = IF r.Handler # ""
                                         THEN HandlerFuncVal(TRUE, r.Handler)
                                         ELSE HandlerFuncVal(FALSE, r.HandlerFunc)

====
